---- MODULE Spec2Model ----
(***************************************************************************)
(* A model of the 2048 grid engine of game_2048 (src/src/lib.rs): the      *)
(* Game struct, its core logic (spawn_tile, transpose, delete_zero, merge, *)
(* check_fail) and its input handlers (move_up, move_left, move_down,      *)
(* move_right, new_game).                                                  *)
(*                                                                         *)
(* The grid `datas` is a function on the cell indices 0..15, row-major, as *)
(* the Vec<u32> of the source.  u32 quantities that may be loaded from the *)
(* config file (score, best_score) are kept as two 16-bit limbs [hi, lo]   *)
(* so that the whole u32 range, and saturating_add on it, is represented   *)
(* exactly.  Tile values stay far below 2^31 in every state of the model   *)
(* and are plain naturals; the shift `<<= 1` is computed on 32 bits.       *)
(*                                                                         *)
(* spawn_count and focus_handle drive the presentation only and are not    *)
(* modelled.                                                               *)
(***************************************************************************)
EXTENDS Integers, Sequences, FiniteSets, TLC

VARIABLES
    datas,          \* Game.datas: the 16 cells
    score,          \* Game.score (u32 as limbs)
    best_score,     \* Game.best_score (u32 as limbs)
    is_started,     \* Game.is_started
    is_game_over,   \* Game.is_game_over
    new_tiles,      \* Game.new_tiles: indices spawned by the last operation
    panicked,       \* TRUE once spawn_tile indexed an empty candidate list
    op,             \* the last operation performed
    pre,            \* the Game fields as they were when that operation began
    mid,            \* datas as merge left it, before the spawn
    moved,          \* what merge returned to the handler
    failed,         \* what check_fail returned to the handler
    saves,          \* the values save_best_score wrote during that operation
    ops,            \* number of freely chosen operations performed so far
    replay          \* position in the scripted opening (0: not replaying)

vars == <<datas, score, best_score, is_started, is_game_over, new_tiles,
          panicked, op, pre, mid, moved, failed, saves, ops, replay>>

----------------------------------------------------------------------------
(* Bounds of the exploration *)

\* number of operations explored with a freely chosen random source
MaxOps == 2
\* number of empty cells (outermost indices first) the shuffle may put first
SpawnChoices == 2
\* board inputs of the function specification use tiles 2^1 .. 2^MaxExp
MaxExp == 3

----------------------------------------------------------------------------
(* u32 arithmetic *)

Limb == 65536

U32(h, l) == [hi |-> h, lo |-> l]

ToU32(n) == U32(n \div Limb, n % Limb)

\* defined for values below 2^31 only
Val(a) == a.hi * Limb + a.lo

U32Zero == U32(0, 0)

U32Max == U32(Limb - 1, Limb - 1)

Lt(a, b) == a.hi < b.hi \/ (a.hi = b.hi /\ a.lo < b.lo)

\* the addition wrapping around instead of saturating
wrapping_add(a, b) ==
    LET lo == a.lo + b.lo
        hi == a.hi + b.hi + (lo \div Limb)
    IN  U32(hi % Limb, lo % Limb)

saturating_add(a, b) ==
    LET lo == a.lo + b.lo
        hi == a.hi + b.hi + (lo \div Limb)
    IN  IF hi >= Limb THEN U32Max ELSE U32(hi, lo % Limb)

\* a tile growing by 2 instead of doubling
Shl1_plus2(v) == v + 2

\* v << 1 on 32 bits (the top bit is shifted out)
Shl1(v) ==
    LET lo == (v % Limb) * 2
        hi == ((v \div Limb) * 2 + (lo \div Limb)) % Limb
    IN  hi * Limb + (lo % Limb)

----------------------------------------------------------------------------
(* The grid *)

Cells == 0..15

EmptyGrid == [c \in Cells |-> 0]

Abs(x) == IF x < 0 THEN 0 - x ELSE x

\* the index expression ((j.abs()) * 4 + i) of delete_zero and merge
At(j, i) == Abs(j) * 4 + i

swap(d, a, b) == [d EXCEPT ![a] = d[b], ![b] = d[a]]

\* transpose with its fifth swap taking cell 12 instead of cell 13
transpose_7_12(d) ==
    swap(swap(swap(swap(swap(swap(d, 1, 4), 2, 8), 3, 12), 6, 9), 7, 12), 11, 14)

transpose(d) ==
    swap(swap(swap(swap(swap(swap(d, 1, 4), 2, 8), 3, 12), 6, 9), 7, 13), 11, 14)

\* dz_k taking the last non-zero cell of the line instead of the first
RECURSIVE dz_k_last(_, _, _, _)
dz_k_last(d, i, k, hi) ==
    IF k >= hi THEN hi
    ELSE LET r == dz_k_last(d, i, k + 1, hi)
         IN  IF r < hi THEN r
             ELSE IF d[At(k, i)] # 0 THEN k ELSE hi

\* the inner `for k in j + 1..4 - pos` of delete_zero: the first k whose cell
\* is not zero, or hi when there is none
RECURSIVE dz_k(_, _, _, _)
dz_k(d, i, k, hi) ==
    IF k >= hi THEN hi
    ELSE IF d[At(k, i)] # 0 THEN k
    ELSE dz_k(d, i, k + 1, hi)

\* `for j in 0 - pos..4 - pos` of delete_zero, from j on
RECURSIVE dz_j(_, _, _, _)
dz_j(st, i, j, hi) ==
    IF j >= hi THEN st
    ELSE IF st.d[At(j, i)] = 0
         THEN LET k == dz_k(st.d, i, j + 1, hi)
              IN  IF k < hi
                  THEN dz_j([d |-> [st.d EXCEPT ![At(j, i)] = st.d[At(k, i)],
                                                ![At(k, i)] = 0],
                             flag |-> TRUE], i, j + 1, hi)
                  ELSE dz_j(st, i, j + 1, hi)
         ELSE dz_j(st, i, j + 1, hi)

\* `for i in 0..4` of delete_zero, from i on
RECURSIVE dz_i(_, _, _)
dz_i(st, i, pos) ==
    IF i >= 4 THEN st
    ELSE dz_i(dz_j(st, i, 0 - pos, 4 - pos), i + 1, pos)

\* delete_zero never setting its flag
delete_zero_noflag(d, pos) ==
    [d |-> dz_i([d |-> d, flag |-> FALSE], 0, pos).d, flag |-> FALSE]

\* delete_zero with its flag set before the loops
delete_zero_flagset(d, pos) ==
    [d |-> dz_i([d |-> d, flag |-> FALSE], 0, pos).d, flag |-> TRUE]

\* delete_zero: [d: the grid it leaves, flag: its return value]
delete_zero(d, pos) == dz_i([d |-> d, flag |-> FALSE], 0, pos)

\* merge_step adding the value of the tile before it is doubled
merge_step_half(m, i, j) ==
    LET a == At(j, i)
        b == At(j + 1, i)
    IN  IF m.d[a] # 0 /\ m.d[a] = m.d[b]
        THEN LET v  == Shl1(m.d[a])
                 sc == saturating_add(m.score, ToU32(m.d[a]))
                 up == Lt(m.best, sc)
             IN  [d     |-> [m.d EXCEPT ![a] = v, ![b] = 0],
                  score |-> sc,
                  best  |-> IF up THEN sc ELSE m.best,
                  saves |-> IF up THEN Append(m.saves, sc) ELSE m.saves,
                  flag2 |-> TRUE]
        ELSE m

\* merge_step setting best_score to the score at every merge
merge_step_always(m, i, j) ==
    LET a == At(j, i)
        b == At(j + 1, i)
    IN  IF m.d[a] # 0 /\ m.d[a] = m.d[b]
        THEN LET v  == Shl1(m.d[a])
                 sc == saturating_add(m.score, ToU32(v))
                 up == Lt(m.best, sc)
             IN  [d     |-> [m.d EXCEPT ![a] = v, ![b] = 0],
                  score |-> sc,
                  best  |-> sc,
                  saves |-> IF up THEN Append(m.saves, sc) ELSE m.saves,
                  flag2 |-> TRUE]
        ELSE m

\* merge_step calling save_best_score before it assigns best_score
merge_step_saveold(m, i, j) ==
    LET a == At(j, i)
        b == At(j + 1, i)
    IN  IF m.d[a] # 0 /\ m.d[a] = m.d[b]
        THEN LET v  == Shl1(m.d[a])
                 sc == saturating_add(m.score, ToU32(v))
                 up == Lt(m.best, sc)
             IN  [d     |-> [m.d EXCEPT ![a] = v, ![b] = 0],
                  score |-> sc,
                  best  |-> IF up THEN sc ELSE m.best,
                  saves |-> IF up THEN Append(m.saves, m.best) ELSE m.saves,
                  flag2 |-> TRUE]
        ELSE m

\* merge_step looking past an unequal neighbour at the cell behind it
merge_step_skip(m, i, j) ==
    LET a == At(j, i)
        n == At(j + 1, i)
        b == IF m.d[n] # m.d[a] /\ ((j >= 0 /\ j <= 1) \/ j <= 0 - 2)
             THEN At(j + 2, i) ELSE n
    IN  IF m.d[a] # 0 /\ m.d[a] = m.d[b]
        THEN LET v  == Shl1(m.d[a])
                 sc == saturating_add(m.score, ToU32(v))
                 up == Lt(m.best, sc)
             IN  [d     |-> [m.d EXCEPT ![a] = v, ![b] = 0],
                  score |-> sc,
                  best  |-> IF up THEN sc ELSE m.best,
                  saves |-> IF up THEN Append(m.saves, sc) ELSE m.saves,
                  flag2 |-> TRUE]
        ELSE m

\* merge_step never writing best_score
merge_step_nobest(m, i, j) ==
    LET a == At(j, i)
        b == At(j + 1, i)
    IN  IF m.d[a] # 0 /\ m.d[a] = m.d[b]
        THEN LET v  == Shl1(m.d[a])
                 sc == saturating_add(m.score, ToU32(v))
             IN  [d     |-> [m.d EXCEPT ![a] = v, ![b] = 0],
                  score |-> sc,
                  best  |-> m.best,
                  saves |-> m.saves,
                  flag2 |-> TRUE]
        ELSE m

\* the body of merge's inner loop for one (i, j); m is
\* [d, score, best, saves, flag2]
merge_step(m, i, j) ==
    LET a == At(j, i)
        b == At(j + 1, i)
    IN  IF m.d[a] # 0 /\ m.d[a] = m.d[b]
        THEN LET v  == Shl1(m.d[a])
                 sc == saturating_add(m.score, ToU32(v))
                 up == Lt(m.best, sc)
             IN  [d     |-> [m.d EXCEPT ![a] = v, ![b] = 0],
                  score |-> sc,
                  best  |-> IF up THEN sc ELSE m.best,
                  saves |-> IF up THEN Append(m.saves, sc) ELSE m.saves,
                  flag2 |-> TRUE]
        ELSE m

\* merge_j scanning the pairs from the far end toward the target end
RECURSIVE merge_j_rev(_, _, _, _)
merge_j_rev(m, i, j, hi) ==
    IF j >= hi THEN m ELSE merge_step(merge_j_rev(m, i, j + 1, hi), i, j)

\* `for j in 0 - pos..3 - pos` of merge, from j on
RECURSIVE merge_j(_, _, _, _)
merge_j(m, i, j, hi) ==
    IF j >= hi THEN m ELSE merge_j(merge_step(m, i, j), i, j + 1, hi)

\* `for i in 0..4` of merge, from i on
RECURSIVE merge_i(_, _, _)
merge_i(m, i, pos) ==
    IF i >= 4 THEN m
    ELSE merge_i(merge_j(m, i, 0 - pos, 3 - pos), i + 1, pos)

\* merge's state when its loops begin
MergeStart(d, sc, bs, dir, pos) ==
    [d |-> delete_zero(IF dir = 1 THEN transpose(d) ELSE d, pos).d,
     score |-> sc, best |-> bs, saves |-> <<>>, flag2 |-> FALSE]

\* merge's state after the first k of the 12 passes through the body of its
\* loops, i being the outer and j the inner index
RECURSIVE MergePrefix(_, _, _)
MergePrefix(m, pos, k) ==
    IF k = 0 THEN m
    ELSE merge_step(MergePrefix(m, pos, k - 1),
                    (k - 1) \div 3, ((k - 1) % 3) - pos)

\* merge returning flag1 alone
merge_flag1(d, sc, bs, dir, pos) ==
    LET d0 == IF dir = 1 THEN transpose(d) ELSE d
        z1 == delete_zero(d0, pos)
        m  == merge_i([d |-> z1.d, score |-> sc, best |-> bs,
                       saves |-> <<>>, flag2 |-> FALSE], 0, pos)
        z2 == delete_zero(m.d, pos)
        d1 == IF dir = 1 THEN transpose(z2.d) ELSE z2.d
    IN  [d |-> d1, score |-> m.score, best |-> m.best, saves |-> m.saves,
         moved |-> z1.flag]

\* merge without the transpose that restores the grid when dir is 1
merge_oneway(d, sc, bs, dir, pos) ==
    LET d0 == IF dir = 1 THEN transpose(d) ELSE d
        z1 == delete_zero(d0, pos)
        m  == merge_i([d |-> z1.d, score |-> sc, best |-> bs,
                       saves |-> <<>>, flag2 |-> FALSE], 0, pos)
        z2 == delete_zero(m.d, pos)
    IN  [d |-> z2.d, score |-> m.score, best |-> m.best, saves |-> m.saves,
         moved |-> (z1.flag \/ m.flag2)]

\* merge(dir, pos) on a game with grid d, score sc and best score bs:
\* [d, score, best, saves, moved], moved being the return value flag1 | flag2
merge(d, sc, bs, dir, pos) ==
    LET d0 == IF dir = 1 THEN transpose(d) ELSE d
        z1 == delete_zero(d0, pos)
        m  == merge_i([d |-> z1.d, score |-> sc, best |-> bs,
                       saves |-> <<>>, flag2 |-> FALSE], 0, pos)
        z2 == delete_zero(m.d, pos)
        d1 == IF dir = 1 THEN transpose(z2.d) ELSE z2.d
    IN  [d |-> d1, score |-> m.score, best |-> m.best, saves |-> m.saves,
         moved |-> (z1.flag \/ m.flag2)]

\* cf_loop comparing with the right neighbour up to column 1 only
RECURSIVE cf_loop_col(_, _)
cf_loop_col(d, i) ==
    IF i >= 16 THEN TRUE
    ELSE LET row == i \div 4
             col == i % 4
         IN  IF col < 2 /\ d[i] = d[i + 1] THEN FALSE
             ELSE IF row < 3 /\ d[i] = d[i + 4] THEN FALSE
             ELSE cf_loop_col(d, i + 1)

\* the `for i in 0..16` of check_fail, from i on: TRUE when the loop runs to
\* its end without returning false
RECURSIVE cf_loop(_, _)
cf_loop(d, i) ==
    IF i >= 16 THEN TRUE
    ELSE LET row == i \div 4
             col == i % 4
         IN  IF col < 3 /\ d[i] = d[i + 1] THEN FALSE
             ELSE IF row < 3 /\ d[i] = d[i + 4] THEN FALSE
             ELSE cf_loop(d, i + 1)

\* check_fail taking every full grid for a lost game
check_fail_full(d) == Cardinality({c \in Cells : d[c] = 0}) = 0

check_fail(d) ==
    LET count == Cardinality({c \in Cells : d[c] = 0})
    IN  IF count # 0 THEN FALSE ELSE cf_loop(d, 0)

\* the candidate list without its filter
Empties_all(d) == Cells

\* the candidate list `nums` of spawn_tile
Empties(d) == {c \in Cells : d[c] = 0}

----------------------------------------------------------------------------
(* The random source and the exploration it is given *)

\* A recorded game: the operations and the outcomes of the random source
\* (cell, value) of its first fifteen inputs.  It leaves a board with
\* one empty cell, from which the game can end in one move.
Opening ==
    << [op |-> "new_game",   picks |-> << <<6, 2>>, <<8, 4>> >>],
       [op |-> "move_left",  picks |-> << <<5, 4>> >>],
       [op |-> "move_up",    picks |-> << <<14, 4>> >>],
       [op |-> "move_left",  picks |-> << <<7, 4>> >>],
       [op |-> "move_right", picks |-> << <<12, 2>> >>],
       [op |-> "move_left",  picks |-> << <<9, 2>> >>],
       [op |-> "move_up",    picks |-> << <<14, 4>> >>],
       [op |-> "move_left",  picks |-> << <<6, 4>> >>],
       [op |-> "move_up",    picks |-> << <<13, 2>> >>],
       [op |-> "move_down",  picks |-> << <<11, 2>> >>],
       [op |-> "move_left",  picks |-> << <<11, 4>> >>],
       [op |-> "move_up",    picks |-> << <<15, 2>> >>],
       [op |-> "move_up",    picks |-> << <<14, 4>> >>],
       [op |-> "move_right", picks |-> << <<8, 4>> >>],
       [op |-> "move_right", picks |-> << <<8, 2>> >>] >>

\* the empty cells the shuffle may put first: the SpawnChoices outermost
\* ones, taken in turn from the lowest and from the highest index
FirstEmpties(d) ==
    {c \in Empties(d) :
        \/ 2 * Cardinality({e \in Empties(d) : e < c}) < SpawnChoices
        \/ 2 * Cardinality({e \in Empties(d) : e > c}) + 1 < SpawnChoices}

\* what the random source may answer to the n-th spawn_tile of an operation:
\* <<nums[0] after the shuffle, the tile value>>
Outcomes(d, n) ==
    IF replay > 0
    THEN {Opening[replay].picks[n]}
    ELSE {<<c, v>> : c \in FirstEmpties(d), v \in {2, 4}}

\* the operation `name` is the next one explored
Chosen(name) ==
    /\ ~panicked
    /\ IF replay > 0 THEN Opening[replay].op = name ELSE ops < MaxOps

Advance ==
    /\ replay' = IF replay > 0 /\ replay < Len(Opening) THEN replay + 1 ELSE 0
    /\ ops' = IF replay > 0 THEN ops ELSE ops + 1

----------------------------------------------------------------------------
(* The game *)

\* spawn_tile on grid d and spawn log nt, as the n-th spawn of an operation:
\* the results the random source allows; indexing the empty list panics
spawn_tile(d, nt, n) ==
    IF Empties(d) = {}
    THEN {[d |-> d, nt |-> nt, panic |-> TRUE]}
    ELSE {[d |-> [d EXCEPT ![p[1]] = p[2]], nt |-> Append(nt, p[1]),
           panic |-> FALSE] : p \in Outcomes(d, n)}

Snapshot ==
    [datas |-> datas, score |-> score, best_score |-> best_score,
     is_started |-> is_started, is_game_over |-> is_game_over,
     new_tiles |-> new_tiles]

\* the best scores the config file may hold when the game is constructed
BestInit == {U32Zero, ToU32(4)}

\* Game::new
Init ==
    /\ datas = EmptyGrid
    /\ score = U32Zero
    /\ best_score \in BestInit
    /\ is_started = FALSE
    /\ is_game_over = FALSE
    /\ new_tiles = <<>>
    /\ panicked = FALSE
    /\ op = "new"
    /\ pre = [datas |-> EmptyGrid, score |-> U32Zero, best_score |-> best_score,
              is_started |-> FALSE, is_game_over |-> FALSE, new_tiles |-> <<>>]
    /\ mid = EmptyGrid
    /\ moved = FALSE
    /\ failed = FALSE
    /\ saves = <<>>
    /\ ops = 0
    /\ replay \in {0, 1}

\* new_game without new_tiles.clear()
new_game_noclear ==
    /\ Chosen("new_game")
    /\ Advance
    /\ \E s1 \in spawn_tile(EmptyGrid, new_tiles, 1) :
         \E s2 \in (IF s1.panic THEN {s1} ELSE spawn_tile(s1.d, s1.nt, 2)) :
            /\ datas' = s2.d
            /\ new_tiles' = s2.nt
            /\ panicked' = s2.panic
    /\ score' = U32Zero
    /\ is_started' = TRUE
    /\ is_game_over' = FALSE
    /\ UNCHANGED best_score
    /\ op' = "new_game"
    /\ pre' = Snapshot
    /\ mid' = EmptyGrid
    /\ moved' = FALSE
    /\ failed' = FALSE
    /\ saves' = <<>>

\* new_game leaving is_game_over as it is
new_game_keepover ==
    /\ Chosen("new_game")
    /\ Advance
    /\ \E s1 \in spawn_tile(EmptyGrid, <<>>, 1) :
         \E s2 \in (IF s1.panic THEN {s1} ELSE spawn_tile(s1.d, s1.nt, 2)) :
            /\ datas' = s2.d
            /\ new_tiles' = s2.nt
            /\ panicked' = s2.panic
    /\ score' = U32Zero
    /\ is_started' = TRUE
    /\ UNCHANGED <<best_score, is_game_over>>
    /\ op' = "new_game"
    /\ pre' = Snapshot
    /\ mid' = EmptyGrid
    /\ moved' = FALSE
    /\ failed' = FALSE
    /\ saves' = <<>>

\* Game::new_game (new_game_mouse and new_game_keyboard both call it)
new_game ==
    /\ Chosen("new_game")
    /\ Advance
    /\ \E s1 \in spawn_tile(EmptyGrid, <<>>, 1) :
         \E s2 \in (IF s1.panic THEN {s1} ELSE spawn_tile(s1.d, s1.nt, 2)) :
            /\ datas' = s2.d
            /\ new_tiles' = s2.nt
            /\ panicked' = s2.panic
    /\ score' = U32Zero
    /\ is_started' = TRUE
    /\ is_game_over' = FALSE
    /\ UNCHANGED best_score
    /\ op' = "new_game"
    /\ pre' = Snapshot
    /\ mid' = EmptyGrid
    /\ moved' = FALSE
    /\ failed' = FALSE
    /\ saves' = <<>>

\* the arguments <<dir, pos>> each handler gives to merge
MergeArgs ==
    [move_up |-> <<0, 0>>, move_left |-> <<1, 0>>,
     move_down |-> <<0, 3>>, move_right |-> <<1, 3>>]

Handlers == DOMAIN MergeArgs

\* the handlers' body clearing new_tiles before it tests is_started
Move_clear(name) ==
    /\ Advance
    /\ op' = name
    /\ pre' = Snapshot
    /\ IF ~is_started
       THEN /\ UNCHANGED <<datas, score, best_score, is_started, is_game_over,
                           panicked>>
            /\ new_tiles' = <<>>
            /\ mid' = datas
            /\ moved' = FALSE
            /\ failed' = FALSE
            /\ saves' = <<>>
       ELSE \E m \in {merge(datas, score, best_score,
                            MergeArgs[name][1], MergeArgs[name][2])} :
                /\ mid' = m.d
                /\ moved' = m.moved
                /\ saves' = m.saves
                /\ score' = m.score
                /\ best_score' = m.best
                /\ \E s \in (IF m.moved
                             THEN spawn_tile(m.d, <<>>, 1)
                             ELSE {[d |-> m.d, nt |-> <<>>, panic |-> FALSE]}) :
                      /\ datas' = s.d
                      /\ new_tiles' = s.nt
                      /\ panicked' = s.panic
                      /\ failed' = (~s.panic /\ check_fail(s.d))
                      /\ is_started' = (is_started /\ ~failed')
                      /\ is_game_over' = (is_game_over \/ failed')

\* the body shared by move_up, move_left, move_down and move_right, which
\* differ in the arguments they give to merge
Move(name) ==
    /\ Advance
    /\ op' = name
    /\ pre' = Snapshot
    /\ IF ~is_started
       THEN /\ UNCHANGED <<datas, score, best_score, is_started, is_game_over,
                           new_tiles, panicked>>
            /\ mid' = datas
            /\ moved' = FALSE
            /\ failed' = FALSE
            /\ saves' = <<>>
       ELSE \E m \in {merge(datas, score, best_score,
                            MergeArgs[name][1], MergeArgs[name][2])} :
                /\ mid' = m.d
                /\ moved' = m.moved
                /\ saves' = m.saves
                /\ score' = m.score
                /\ best_score' = m.best
                /\ \E s \in (IF m.moved
                             THEN spawn_tile(m.d, <<>>, 1)
                             ELSE {[d |-> m.d, nt |-> <<>>, panic |-> FALSE]}) :
                      /\ datas' = s.d
                      /\ new_tiles' = s.nt
                      /\ panicked' = s.panic
                      /\ failed' = (~s.panic /\ check_fail(s.d))
                      /\ is_started' = (is_started /\ ~failed')
                      /\ is_game_over' = (is_game_over \/ failed')

move_up ==
    /\ Chosen("move_up")
    /\ Move("move_up")

move_left ==
    /\ Chosen("move_left")
    /\ Move("move_left")

move_down ==
    /\ Chosen("move_down")
    /\ Move("move_down")

move_right ==
    /\ Chosen("move_right")
    /\ Move("move_right")

Next == new_game \/ move_up \/ move_left \/ move_down \/ move_right

Spec == Init /\ [][Next]_vars

----------------------------------------------------------------------------
(* merge and check_fail as functions of the grid: every board of a family   *)
(* is given to each of them once                                            *)

RECURSIVE Pow2(_)
Pow2(e) == IF e = 0 THEN 1 ELSE 2 * Pow2(e - 1)

\* the cell values of the input boards
Vals == {0} \cup {Pow2(e) : e \in 1..MaxExp}

\* a full board without two equal neighbours
Checker == [c \in Cells |-> IF ((c \div 4) + (c % 4)) % 2 = 0 THEN 2 ELSE 4]

WithRow(d, r, l) == [c \in Cells |-> IF c \div 4 = r THEN l[c % 4] ELSE d[c]]

WithCol(d, k, l) == [c \in Cells |-> IF c % 4 = k THEN l[c \div 4] ELSE d[c]]

\* the input boards: the empty board and the checkered board with one row
\* or one column replaced by any four values
Boards ==
    {WithRow(b, n, l) : b \in {EmptyGrid, Checker}, n \in 0..3,
                        l \in [0..3 -> Vals]}
    \cup
    {WithCol(b, n, l) : b \in {EmptyGrid, Checker}, n \in 0..3,
                        l \in [0..3 -> Vals]}

FnInit ==
    /\ datas \in Boards
    /\ score = U32Zero
    /\ best_score \in BestInit
    /\ is_started = TRUE
    /\ is_game_over = FALSE
    /\ new_tiles = <<>>
    /\ panicked = FALSE
    /\ op = "input"
    /\ pre = [datas |-> datas, score |-> U32Zero, best_score |-> best_score,
              is_started |-> TRUE, is_game_over |-> FALSE, new_tiles |-> <<>>]
    /\ mid = datas
    /\ moved = FALSE
    /\ failed = FALSE
    /\ saves = <<>>
    /\ ops = 0
    /\ replay = 0

\* merge alone, with the arguments of handler `name`
FnMerge(name) ==
    /\ op = "input"
    /\ op' = name
    /\ pre' = Snapshot
    /\ \E m \in {merge(datas, score, best_score,
                       MergeArgs[name][1], MergeArgs[name][2])} :
          /\ datas' = m.d
          /\ mid' = m.d
          /\ moved' = m.moved
          /\ saves' = m.saves
          /\ score' = m.score
          /\ best_score' = m.best
    /\ UNCHANGED <<is_started, is_game_over, new_tiles, panicked, failed,
                   ops, replay>>

\* check_fail alone
FnCheckFail ==
    /\ op = "input"
    /\ op' = "check_fail"
    /\ pre' = Snapshot
    /\ failed' = check_fail(datas)
    /\ UNCHANGED <<datas, score, best_score, is_started, is_game_over,
                   new_tiles, panicked, mid, moved, saves, ops, replay>>

FnNext == (\E name \in Handlers : FnMerge(name)) \/ FnCheckFail

SpecFn == FnInit /\ [][FnNext]_vars

----------------------------------------------------------------------------
(* merge as a function of the score: scores up to the largest u32 are given  *)
(* to it, on boards with one row replaced                                    *)

\* the scores given to merge: small ones, one below a carry between the
\* limbs, and the largest u32 values
ScoreInputs ==
    {U32Zero, U32(0, Limb - 4)}
    \cup {U32(Limb - 1, Limb - 1 - k) : k \in {0, 3, 4, 12, 30}}

SatBoards ==
    {WithRow(b, 1, l) : b \in {EmptyGrid, Checker}, l \in [0..3 -> Vals]}

SatInit ==
    /\ datas \in SatBoards
    /\ score \in ScoreInputs
    /\ best_score \in {score, U32Max}
    /\ is_started = TRUE
    /\ is_game_over = FALSE
    /\ new_tiles = <<>>
    /\ panicked = FALSE
    /\ op = "input"
    /\ pre = [datas |-> datas, score |-> score, best_score |-> best_score,
              is_started |-> TRUE, is_game_over |-> FALSE, new_tiles |-> <<>>]
    /\ mid = datas
    /\ moved = FALSE
    /\ failed = FALSE
    /\ saves = <<>>
    /\ ops = 0
    /\ replay = 0

SatNext == \E name \in Handlers : FnMerge(name)

SpecSat == SatInit /\ [][SatNext]_vars

----------------------------------------------------------------------------
(* transpose as a function of the grid: applied once and twice to every     *)
(* board of Boards and to a grid of 16 different values                     *)

\* a grid whose cells all differ (test_swap fills its grid with random i32)
Numbered == [c \in Cells |-> c + 1]

TrInit ==
    /\ datas \in Boards \cup {Numbered}
    /\ score = U32Zero
    /\ best_score = U32Zero
    /\ is_started = TRUE
    /\ is_game_over = FALSE
    /\ new_tiles = <<>>
    /\ panicked = FALSE
    /\ op = "input"
    /\ pre = [datas |-> datas, score |-> U32Zero, best_score |-> U32Zero,
              is_started |-> TRUE, is_game_over |-> FALSE, new_tiles |-> <<>>]
    /\ mid = datas
    /\ moved = FALSE
    /\ failed = FALSE
    /\ saves = <<>>
    /\ ops = 0
    /\ replay = 0

\* one call of transpose on the input grid; mid keeps its result
FnTranspose ==
    /\ op = "input"
    /\ op' = "transpose"
    /\ pre' = Snapshot
    /\ datas' = transpose(datas)
    /\ mid' = datas'
    /\ UNCHANGED <<score, best_score, is_started, is_game_over, new_tiles,
                   panicked, moved, failed, saves, ops, replay>>

\* a second call of transpose on the result of the first
FnTranspose2 ==
    /\ op = "transpose"
    /\ op' = "transpose_twice"
    /\ datas' = transpose(datas)
    /\ UNCHANGED <<score, best_score, is_started, is_game_over, new_tiles,
                   panicked, pre, mid, moved, failed, saves, ops, replay>>

TrNext == FnTranspose \/ FnTranspose2

SpecTr == TrInit /\ [][TrNext]_vars

----------------------------------------------------------------------------
(* What the properties are stated with *)

\* some handler ran merge on the game it found started
MoveAccepted == op \in Handlers /\ pre.is_started

\* line n of grid d for handler `name`, from the end the tiles are pushed to
\* (Up: top of column n, Left: left of row n, Down: bottom of column n,
\* Right: right of row n) to the far end
LineOf(d, name, n) ==
    CASE name = "move_up"    -> <<d[n], d[4 + n], d[8 + n], d[12 + n]>>
      [] name = "move_down"  -> <<d[12 + n], d[8 + n], d[4 + n], d[n]>>
      [] name = "move_left"  -> <<d[4 * n], d[4 * n + 1], d[4 * n + 2], d[4 * n + 3]>>
      [] name = "move_right" -> <<d[4 * n + 3], d[4 * n + 2], d[4 * n + 1], d[4 * n]>>

NonZero(x) == x # 0

\* the tiles of a line in their order
Compact(l) == SelectSeq(l, NonZero)

Pad(t) == t \o [k \in 1..(4 - Len(t)) |-> 0]

\* equal neighbours of a gap-free line merged pairwise from its head
RECURSIVE MergePairs(_)
MergePairs(t) ==
    IF Len(t) < 2 THEN t
    ELSE IF t[1] = t[2]
         THEN <<2 * t[1]>> \o MergePairs(SubSeq(t, 3, Len(t)))
         ELSE <<t[1]>> \o MergePairs(Tail(t))

\* the values those merges create, added up
RECURSIVE PairsDelta(_)
PairsDelta(t) ==
    IF Len(t) < 2 THEN 0
    ELSE IF t[1] = t[2]
         THEN 2 * t[1] + PairsDelta(SubSeq(t, 3, Len(t)))
         ELSE PairsDelta(Tail(t))

\* the reference result of a line and its score
RefLine(l) == Pad(MergePairs(Compact(l)))

RefDelta(l) == PairsDelta(Compact(l))

RECURSIVE SumSeq(_)
SumSeq(t) == IF t = <<>> THEN 0 ELSE t[1] + SumSeq(Tail(t))

\* the board whose only tiles are those of row n, given left to right
OnlyRow(n, t) == [c \in Cells |-> IF c \div 4 = n THEN t[(c % 4) + 1] ELSE 0]

GridSum(d) == SumSeq([k \in 1..16 |-> d[k - 1]])

\* what the last operation added to the score
Delta == Val(score) - Val(pre.score)

\* the ways to cut a line of k tiles into consecutive blocks of one or two
Blockings(k) ==
    {bs \in UNION {[1..m -> {1, 2}] : m \in 0..k} : SumSeq(bs) = k}

\* every block of two holds two equal tiles
RECURSIVE BlocksEqual(_, _)
BlocksEqual(t, bs) ==
    IF bs = <<>> THEN TRUE
    ELSE IF bs[1] = 1 THEN BlocksEqual(Tail(t), Tail(bs))
    ELSE t[1] = t[2] /\ BlocksEqual(SubSeq(t, 3, Len(t)), Tail(bs))

\* the blocks added up
RECURSIVE BlockSums(_, _)
BlockSums(t, bs) ==
    IF bs = <<>> THEN <<>>
    ELSE IF bs[1] = 1 THEN <<t[1]>> \o BlockSums(Tail(t), Tail(bs))
    ELSE <<t[1] + t[2]>> \o BlockSums(SubSeq(t, 3, Len(t)), Tail(bs))

Count(d, v) == Cardinality({c \in Cells : d[c] = v})

\* how many tiles of value v merging created between grid b and grid a: the
\* tiles of value v / 2 that went away, two for each
RECURSIVE Created(_, _, _)
Created(b, a, v) ==
    IF v <= 2 THEN 0
    ELSE (Count(b, v \div 2) + Created(b, a, v \div 2) - Count(a, v \div 2)) \div 2

RECURSIVE SumCreated(_, _, _)
SumCreated(b, a, vs) ==
    IF vs = {} THEN 0
    ELSE LET v == CHOOSE x \in vs : TRUE
         IN  v * Created(b, a, v) + SumCreated(b, a, vs \ {v})

\* the values of the tiles merging created between grid b and grid a, added up
CreatedSum(b, a) == SumCreated(b, a, {a[c] : c \in Cells} \ {0})

\* two cells next to each other in a row or in a column
Adjacent(a, b) ==
    \/ (a \div 4 = b \div 4 /\ Abs((a % 4) - (b % 4)) = 1)
    \/ (a % 4 = b % 4 /\ Abs((a \div 4) - (b \div 4)) = 1)

\* no empty cell and no two adjacent cells with equal values
Terminal(d) ==
    /\ \A c \in Cells : d[c] # 0
    /\ \A a, b \in Cells : Adjacent(a, b) => d[a] # d[b]

----------------------------------------------------------------------------
(* Properties *)

\* C1: in the Playing state, a move whose slide/merge step reports
\* moved = false leaves the grid cell for cell as it was, spawns nothing,
\* leaves score and best_score unchanged and leaves started and game_over
\* unchanged: it cannot end the game.
C1_NoOpMove ==
    (MoveAccepted /\ ~moved) =>
        /\ datas = pre.datas
        /\ mid = pre.datas
        /\ new_tiles = <<>>
        /\ score = pre.score
        /\ best_score = pre.best_score
        /\ is_started = pre.is_started
        /\ is_game_over = pre.is_game_over
        /\ ~panicked

\* a move in the Playing state that moved nothing, on a board that another
\* direction would change
C1_Witness ==
    /\ MoveAccepted
    /\ ~moved
    /\ op = "move_up"
    /\ Empties(pre.datas) # {}

\* C2: the flag merge returns is true exactly when the grid it leaves differs
\* from the grid it was given in some cell.
C2_MovedIffChanged ==
    MoveAccepted =>
        (moved <=> (\E c \in Cells : mid[c] # pre.datas[c]))

\* merge changed the grid by sliding alone and reported it
C2_Witness ==
    /\ op \in Handlers
    /\ moved
    /\ score = pre.score
    /\ mid # pre.datas

\* C3: every line ends up as the reference result: tiles compacted toward the
\* target end in their order, equal neighbours merged from the target end
\* on, compacted again; the score grows by the merged values.
C3_LineResult ==
    MoveAccepted =>
        /\ \A n \in 0..3 :
              LineOf(mid, op, n) = RefLine(LineOf(pre.datas, op, n))
        /\ Delta = SumSeq([k \in 1..4 |-> RefDelta(LineOf(pre.datas, op, k - 1))])
        /\ \A n \in 0..3 :
              /\ (op = "move_left" /\ LineOf(pre.datas, op, n) = <<2, 0, 0, 4>>)
                    => LineOf(mid, op, n) = <<2, 4, 0, 0>>
              /\ (op = "move_left" /\ LineOf(pre.datas, op, n) = <<2, 2, 0, 0>>)
                    => LineOf(mid, op, n) = <<4, 0, 0, 0>>
              /\ (op = "move_left" /\ LineOf(pre.datas, op, n) = <<2, 2, 2, 0>>)
                    => LineOf(mid, op, n) = <<4, 2, 0, 0>>
              /\ (op = "move_left" /\ LineOf(pre.datas, op, n) = <<2, 2, 4, 4>>)
                    => LineOf(mid, op, n) = <<4, 8, 0, 0>>
              \* Right on the row [2,2,2,0] gives the row [0,0,2,4]
              /\ (op = "move_right" /\ LineOf(pre.datas, op, n) = <<0, 2, 2, 2>>)
                    => LineOf(mid, op, n) = <<4, 2, 0, 0>>
              /\ (op = "move_left" /\ pre.datas = OnlyRow(n, <<2, 0, 0, 4>>))
                    => Delta = 0
              /\ (op = "move_left" /\ pre.datas = OnlyRow(n, <<2, 2, 0, 0>>))
                    => Delta = 4
              /\ (op = "move_left" /\ pre.datas = OnlyRow(n, <<2, 2, 2, 0>>))
                    => Delta = 4
              /\ (op = "move_left" /\ pre.datas = OnlyRow(n, <<2, 2, 4, 4>>))
                    => Delta = 12

\* Left was applied to a board whose only tiles are the row [2,2,4,4]
C3_Witness ==
    /\ op = "move_left"
    /\ pre.datas = OnlyRow(1, <<2, 2, 4, 4>>)
    /\ mid = OnlyRow(1, <<4, 8, 0, 0>>)
    /\ Delta = 12

\* C4: each tile takes part in at most one merge of a move: the tiles of
\* every resulting line are the tiles of the input line, in order, each alone
\* or added to one equal neighbour; four equal tiles v give 2v,2v,0,0 and
\* three equal tiles give 2v,v,0,0.
C4_OneMergePerTile ==
    MoveAccepted =>
        \A n \in 0..3 :
            LET t == Compact(LineOf(pre.datas, op, n))
                r == LineOf(mid, op, n)
            IN  /\ \E bs \in Blockings(Len(t)) :
                      BlocksEqual(t, bs) /\ Compact(r) = BlockSums(t, bs)
                /\ (Len(t) = 4 /\ t[1] = t[2] /\ t[2] = t[3] /\ t[3] = t[4])
                      => r = <<2 * t[1], 2 * t[1], 0, 0>>
                /\ (Len(t) = 3 /\ t[1] = t[2] /\ t[2] = t[3])
                      => r = <<2 * t[1], t[1], 0, 0>>

\* Down was applied to a column of four 4s, which became 8,8 at the bottom
C4_Witness ==
    /\ op = "move_down"
    /\ \E n \in 0..3 :
          /\ LineOf(pre.datas, op, n) = <<4, 4, 4, 4>>
          /\ LineOf(mid, op, n) = <<8, 8, 0, 0>>

\* C5 as the specification states it: a move that changes the grid leaves
\* the sum of the tiles unchanged when nothing merged and raises it by the
\* score delta when tiles merged; the delta is the sum of the created tiles.
C5_SumGrowsByDelta ==
    (MoveAccepted /\ moved) =>
        /\ IF Delta = 0
           THEN GridSum(mid) = GridSum(pre.datas)
           ELSE GridSum(mid) = GridSum(pre.datas) + Delta
        /\ Delta = CreatedSum(pre.datas, mid)

\* C5, amended: a move that changes the grid leaves the sum of the tiles
\* unchanged whether or not tiles merged, and the score delta is the sum of
\* the values of the tiles created by merging.
C5_SumConserved ==
    (MoveAccepted /\ moved) =>
        /\ GridSum(mid) = GridSum(pre.datas)
        /\ Delta = CreatedSum(pre.datas, mid)

\* a move merged an 8 and at least one more tile
C5_Witness ==
    /\ MoveAccepted
    /\ moved
    /\ Delta >= 12
    /\ Count(mid, 8) > Count(pre.datas, 8)

\* C6: check_fail returns true exactly when the grid has no empty cell and
\* no two horizontally or vertically adjacent cells with equal values.
C6_TerminalCheck ==
    (op = "check_fail") => (failed <=> Terminal(pre.datas))

\* check_fail refused a full board whose only equal neighbours are the last
\* two cells of the last row
C6_Witness ==
    /\ op = "check_fail"
    /\ ~failed
    /\ \A c \in Cells : pre.datas[c] # 0
    /\ \A a, b \in Cells :
          (Adjacent(a, b) /\ pre.datas[a] = pre.datas[b]) => {a, b} = {14, 15}

\* C7: a move accepted in the Playing state ends in GameOver (started
\* false, game_over true) exactly when the grid it leaves, after slide/merge
\* and spawn, is terminal; otherwise the game stays in Playing.
C7_GameOverIffTerminal ==
    MoveAccepted =>
        IF Terminal(datas)
        THEN ~is_started /\ is_game_over
        ELSE is_started /\ ~is_game_over

\* a move filled the last empty cell and ended the game
C7_Witness ==
    /\ MoveAccepted
    /\ moved
    /\ Terminal(datas)
    /\ is_game_over
    /\ ~is_started

\* C8: while started is false a move is ignored: grid, score, best_score,
\* started, game_over and the spawn log stay as they were, nothing is
\* spawned, no save is requested; only new_game makes started true.
C8_IgnoredWhenNotStarted ==
    /\ (op \in Handlers /\ ~pre.is_started) =>
          /\ datas = pre.datas
          /\ score = pre.score
          /\ best_score = pre.best_score
          /\ is_started = pre.is_started
          /\ is_game_over = pre.is_game_over
          /\ new_tiles = pre.new_tiles
          /\ saves = <<>>
          /\ ~panicked
    /\ (~pre.is_started /\ is_started) => op = "new_game"

\* a move arrived after the game was over, the last spawn still in the log
C8_Witness ==
    /\ op \in Handlers
    /\ ~pre.is_started
    /\ pre.is_game_over
    /\ pre.new_tiles # <<>>

\* C9: a move accepted in the Playing state that changes the grid spawns
\* exactly one tile: one cell that slide/merge left empty holds 2 or 4, every
\* other cell is as slide/merge left it, and the spawn log is that one cell.
C9_OneSpawn ==
    (MoveAccepted /\ moved) =>
        \E c \in Cells :
            /\ mid[c] = 0
            /\ datas[c] \in {2, 4}
            /\ \A e \in Cells \ {c} : datas[e] = mid[e]
            /\ new_tiles = <<c>>

\* a move replaced a spawn log that held other cells by the one cell it
\* spawned, with value 4
C9_Witness ==
    /\ MoveAccepted
    /\ moved
    /\ Len(pre.new_tiles) = 2
    /\ Len(new_tiles) = 1
    /\ datas[new_tiles[1]] = 4
    /\ \A k \in 1..2 : pre.new_tiles[k] # new_tiles[1]

\* C10: spawn_tile never meets a full grid: the game never panics, a move
\* that reports a change leaves an empty cell for the spawn, and new_game
\* spawns its two tiles.
C10_SpawnHasRoom ==
    /\ ~panicked
    /\ (MoveAccepted /\ moved) => Empties(mid) # {}
    /\ (op = "new_game") => Len(new_tiles) = 2

\* a move that changed the grid left exactly one empty cell for the spawn
C10_Witness ==
    /\ MoveAccepted
    /\ moved
    /\ Cardinality(Empties(mid)) = 1
    /\ Empties(datas) = {}
    /\ ~panicked


\* C11: new_game, from NotStarted, Playing or GameOver, leaves score 0,
\* started true, game_over false, best_score as it was, and a grid whose
\* only tiles are two tiles of value 2 or 4 in two distinct cells, which are
\* the two entries of the spawn log.
C11_NewGame ==
    (op = "new_game") =>
        /\ score = U32Zero
        /\ is_started
        /\ ~is_game_over
        /\ best_score = pre.best_score
        /\ Len(new_tiles) = 2
        /\ new_tiles[1] # new_tiles[2]
        /\ \A c \in Cells :
              IF c = new_tiles[1] \/ c = new_tiles[2]
              THEN datas[c] \in {2, 4}
              ELSE datas[c] = 0
        /\ Cardinality({c \in Cells : datas[c] # 0}) = 2

\* a new game was started over a lost game with a score and a spawn log
C11_Witness ==
    /\ op = "new_game"
    /\ pre.is_game_over
    /\ pre.score # U32Zero
    /\ pre.new_tiles # <<>>
    /\ \A c \in Cells : pre.datas[c] # 0
    /\ score = U32Zero
    /\ Len(new_tiles) = 2


\* a <= b on u32
U32Leq(a, b) == a.hi < b.hi \/ (a.hi = b.hi /\ a.lo <= b.lo)

\* a u32 in the upper half of the range, and its distance to the largest u32
High(a) == a.hi >= Limb \div 2

Gap(a) == (Limb - 1 - a.hi) * Limb + (Limb - 1 - a.lo)

\* the values the merges of handler `name` create on grid d, added up
MergedTotal(d, name) ==
    SumSeq([k \in 1..4 |-> RefDelta(LineOf(d, name, k - 1))])

\* C12: a move never lowers the score, and the merged values are added with
\* saturation: the score becomes the largest u32 when the sum would pass
\* it, and is the exact sum otherwise; it never wraps around.
C12_ScoreSaturates ==
    MoveAccepted =>
        /\ U32Leq(pre.score, score)
        /\ LET t == MergedTotal(pre.datas, op)
           IN  IF High(pre.score)
               THEN IF t >= Gap(pre.score)
                    THEN score = U32Max
                    ELSE High(score) /\ Gap(score) = Gap(pre.score) - t
               ELSE Val(score) = Val(pre.score) + t

\* merges worth more than the room left below the largest u32 stopped the
\* score there
C12_Witness ==
    /\ MoveAccepted
    /\ pre.score = U32(Limb - 1, Limb - 1 - 3)
    /\ MergedTotal(pre.datas, op) > 3
    /\ score = U32Max


\* C13: no operation lowers best_score, over several games; it changes only
\* in an accepted move, to the score, which is then above the value
\* best_score had; new_game keeps it.
C13_BestOnlyRises ==
    /\ U32Leq(pre.best_score, best_score)
    /\ (best_score # pre.best_score) =>
          /\ MoveAccepted
          /\ best_score = score
          /\ U32Leq(pre.best_score, score)
          /\ score # pre.best_score
    /\ (op = "new_game") => best_score = pre.best_score

\* a move raised a best score that was not 0
C13_Witness ==
    /\ MoveAccepted
    /\ pre.best_score # U32Zero
    /\ best_score # pre.best_score
    /\ best_score = score


\* v is a power of two that is at least 2
RECURSIVE IsPow2(_)
IsPow2(v) == v = 2 \/ (v > 2 /\ v % 2 = 0 /\ IsPow2(v \div 2))

\* C14: in every state reached by new_game and moves the grid has exactly
\* the 16 cells 0..15 and every cell holds 0 or a power of two that is at
\* least 2.
C14_CellsArePowersOfTwo ==
    /\ DOMAIN datas = 0..15
    /\ Cardinality(DOMAIN datas) = 16
    /\ \A c \in DOMAIN datas : datas[c] = 0 \/ IsPow2(datas[c])

\* a move merged two tiles, spawned a tile, and the grid holds a tile that
\* only merges of merged tiles produce
C14_Witness ==
    /\ MoveAccepted
    /\ score # pre.score
    /\ new_tiles # <<>>
    /\ \E c \in Cells : datas[c] >= 8


\* C15: the six swaps of transpose give the matrix transpose of the 4x4
\* row-major grid, result[i] = input[(i % 4) * 4 + i / 4] for every i in
\* 0..15, and a second transpose gives the input grid back.
C15_TransposeIsMatrixTranspose ==
    /\ (op = "transpose") =>
          \A i \in 0..15 : datas[i] = pre.datas[(i % 4) * 4 + i \div 4]
    /\ (op = "transpose_twice") =>
          /\ \A i \in 0..15 : mid[i] = pre.datas[(i % 4) * 4 + i \div 4]
          /\ datas = pre.datas

\* transpose was applied twice to a grid whose 16 cells all differ, and the
\* first application moved the twelve cells off the diagonal
C15_Witness ==
    /\ op = "transpose_twice"
    /\ \A a, b \in Cells : a # b => pre.datas[a] # pre.datas[b]
    /\ Cardinality({c \in Cells : mid[c] # pre.datas[c]}) = 12
    /\ datas = pre.datas


\* C16: a move that raises the score above best_score sets best_score to
\* the score and asks for saves, the last of them of the new best_score; a
\* move that leaves best_score alone, an ignored move and new_game ask for
\* none; so whenever an operation asked for a save, the last value it asked
\* to save is the best_score in memory.
C16_SaveOnRaise ==
    /\ (MoveAccepted /\ U32Leq(pre.best_score, score)
                     /\ score # pre.best_score) =>
          /\ best_score = score
          /\ saves # <<>>
          /\ saves[Len(saves)] = score
    /\ (best_score = pre.best_score) => saves = <<>>
    /\ ~MoveAccepted => saves = <<>>
    /\ (saves # <<>>) =>
          /\ saves[Len(saves)] = best_score
          /\ \A k \in 1..Len(saves) :
                U32Leq(saves[k], best_score) /\ saves[k] # pre.best_score

\* a move with two merges raised a best score that was not 0 twice and
\* asked for two saves
C16_Witness ==
    /\ MoveAccepted
    /\ pre.best_score # U32Zero
    /\ Len(saves) = 2
    /\ saves[1] # saves[2]
    /\ saves[2] = best_score


\* the places of a gap-free line where two neighbours are equal
EqNeighbours(t) == {k \in 1..(Len(t) - 1) : t[k] = t[k + 1]}

\* C17: merge joins neighbouring tiles only. A line whose tiles, taken in
\* their order, have no two equal neighbours keeps all its tiles, whatever
\* equal tiles lie beyond an unequal one; a line loses at most one tile for
\* each pair of equal neighbours, so a tile made by a merge does not merge
\* across the gap the merge left; 2,4,2,0 and 2,4,2,4 moved toward their
\* first cell are unchanged.
C17_AdjacentPairsOnly ==
    MoveAccepted =>
        /\ \A n \in 0..3 :
              LET t == Compact(LineOf(pre.datas, op, n))
                  r == Compact(LineOf(mid, op, n))
              IN  /\ (EqNeighbours(t) = {}) => r = t
                  /\ Len(t) - Len(r) <= Cardinality(EqNeighbours(t))
        /\ (\A n \in 0..3 :
               EqNeighbours(Compact(LineOf(pre.datas, op, n))) = {}) =>
              score = pre.score
        /\ \A n \in 0..3 :
              (LineOf(pre.datas, op, n) \in {<<2, 4, 2, 0>>, <<2, 4, 2, 4>>}) =>
                  LineOf(mid, op, n) = LineOf(pre.datas, op, n)

\* a row 2,4,2,0 alone on the board was moved left and is unchanged
C17_Witness ==
    /\ op = "move_left"
    /\ pre.is_started
    /\ pre.datas = OnlyRow(1, <<2, 4, 2, 0>>)
    /\ mid = pre.datas
    /\ ~moved


\* the matrix transpose of a row-major 4x4 grid
Tr(d) == [i \in Cells |-> d[(i % 4) * 4 + i \div 4]]

\* row n and column n of a grid, from index 0 to index 3
Row(d, n) == <<d[4 * n], d[4 * n + 1], d[4 * n + 2], d[4 * n + 3]>>

Col(d, n) == <<d[n], d[4 + n], d[8 + n], d[12 + n]>>

\* the tiles of a line lie at its index 0 end, or at its index 3 end
PushedTo0(l) == \A k \in 1..3 : l[k] = 0 => l[k + 1] = 0

PushedTo3(l) == \A k \in 1..3 : l[k + 1] = 0 => l[k] = 0

\* the direction that is `name` with rows and columns exchanged
Twin(name) ==
    CASE name = "move_up"    -> "move_left"
      [] name = "move_left"  -> "move_up"
      [] name = "move_down"  -> "move_right"
      [] name = "move_right" -> "move_down"

\* C18: the result of Up on a grid g (grid, score added, moved flag) is the
\* transpose of the result of Left on the transpose of g, and the result of
\* Down that of Right; Up and Left leave the tiles of every column, or row,
\* at its index 0 end, Down and Right at its index 3 end.
C18_DirectionsByTransposition ==
    MoveAccepted =>
        /\ \E r \in {merge(Tr(pre.datas), pre.score, pre.best_score,
                           MergeArgs[Twin(op)][1], MergeArgs[Twin(op)][2])} :
              /\ mid = Tr(r.d)
              /\ score = r.score
              /\ moved = r.moved
        /\ \A n \in 0..3 :
              CASE op = "move_up"    -> PushedTo0(Col(mid, n))
                [] op = "move_left"  -> PushedTo0(Row(mid, n))
                [] op = "move_down"  -> PushedTo3(Col(mid, n))
                [] op = "move_right" -> PushedTo3(Row(mid, n))

\* Up slid and merged the tiles of a grid that is not its own transpose
C18_Witness ==
    /\ op = "move_up"
    /\ pre.is_started
    /\ Tr(pre.datas) # pre.datas
    /\ moved
    /\ score # pre.score
    /\ mid # Tr(mid)


\* C19: is_started and is_game_over are never both true; while is_started
\* holds the grid is not terminal (it has an empty cell or two equal
\* adjacent cells, and some direction changes it); while is_game_over holds
\* the grid is full and has no two equal adjacent cells.
C19_StartedNotTerminal ==
    /\ ~(is_started /\ is_game_over)
    /\ is_started =>
          /\ ~Terminal(datas)
          /\ \/ \E c \in Cells : datas[c] = 0
             \/ \E a, b \in Cells : Adjacent(a, b) /\ datas[a] = datas[b]
          /\ \E name \in Handlers :
                merge(datas, score, best_score,
                      MergeArgs[name][1], MergeArgs[name][2]).d # datas
    /\ is_game_over =>
          /\ \A c \in Cells : datas[c] # 0
          /\ \A a, b \in Cells : Adjacent(a, b) => datas[a] # datas[b]

\* a move filled the grid and the game goes on, two equal tiles being
\* adjacent
C19_Witness ==
    /\ MoveAccepted
    /\ is_started
    /\ ~is_game_over
    /\ \A c \in Cells : datas[c] # 0
    /\ \E a, b \in Cells : Adjacent(a, b) /\ datas[a] = datas[b]


\* merge's state after k passes of its loops in the last operation
MoveAfter(k) ==
    MergePrefix(MergeStart(pre.datas, pre.score, pre.best_score,
                           MergeArgs[op][1], MergeArgs[op][2]),
                MergeArgs[op][2], k)

\* C20: best_score >= score after construction, after new_game and after
\* every move, whatever best score was loaded, and also after each of the
\* merges of a move.
C20_BestAtLeastScore ==
    /\ U32Leq(score, best_score)
    /\ MoveAccepted =>
          /\ \A k \in 0..12 : U32Leq(MoveAfter(k).score, MoveAfter(k).best)
          /\ MoveAfter(12).score = score
          /\ MoveAfter(12).best = best_score

\* a move with two merges: after the first one the score is above the best
\* score the move began with and below the score the move ends with
C20_Witness ==
    /\ MoveAccepted
    /\ pre.best_score # U32Zero
    /\ \E k \in 1..11 :
          /\ MoveAfter(k).score # pre.score
          /\ MoveAfter(k).score # score
          /\ MoveAfter(k).best = MoveAfter(k).score
          /\ MoveAfter(k).best # pre.best_score
    /\ best_score = score

====
